---- MODULE Spec2Model ----
(***************************************************************************)
(* rerun-loader-collada: an external data-loader executable for the Rerun  *)
(* Viewer (src/main.rs).  One run of `main` is modelled as a sequential    *)
(* state machine: the compatibility gate, the construction of the          *)
(* recording stream, the call of the Collada loader, and the loop of       *)
(* load_mesh that logs one Mesh3D per (mesh, material) pair.               *)
(*                                                                         *)
(* Representation of values:                                               *)
(*   - a path is the sequence of the characters of its final component;    *)
(*   - Option<T> is a record [some, v];                                    *)
(*   - an f32 is a record [nan, h] where h counts half units (h = 25 is    *)
(*     12.5), enough to tell integral from fractional values;              *)
(*   - a process exit status is <<>> while running and <<code>> after.     *)
(***************************************************************************)
EXTENDS Integers, Sequences, FiniteSets

VARIABLES args, file, pc, rec, scene, idx, written, exitCode, loadCalls, logCalls

vars == <<args, file, pc, rec, scene, idx, written, exitCode, loadCalls, logCalls>>

-----------------------------------------------------------------------------
(* Bounds of the model.                                                    *)

MaxNameLen == 5
MaxMeshes == 2
MaxMaterials == 2
MaxVertices == 2
MaxNormals == 2

(* Program constants.                                                      *)

EXTERNAL_DATA_LOADER_INCOMPATIBLE_EXIT_CODE == 66
EXIT_SUCCESS == 0
EXIT_FAILURE == 1
U8_MAX == 255

-----------------------------------------------------------------------------
(* Generic helpers.                                                        *)

SeqUpTo(S, n) == UNION {[1..k -> S] : k \in 0..n}

Min(a, b) == IF a < b THEN a ELSE b

None == [some |-> FALSE, v |-> ""]
Some(x) == [some |-> TRUE, v |-> x]

NoneSeq == [some |-> FALSE, v |-> <<>>]
SomeSeq(x) == [some |-> TRUE, v |-> x]

F32(h) == [nan |-> FALSE, h |-> h]
NaN == [nan |-> TRUE, h |-> 0]

-----------------------------------------------------------------------------
(* fn extension(path) -> String                                            *)

Dae == <<"d", "a", "e">>

ToAsciiLowercaseChar(c) ==
    CASE c = "D" -> "d"
      [] c = "A" -> "a"
      [] c = "E" -> "e"
      [] OTHER -> c

ToAsciiLowercaseKeep(s) == s

ToAsciiLowercase(s) == [j \in 1..Len(s) |-> ToAsciiLowercaseChar(s[j])]

DotPositions(name) == {j \in 1..Len(name) : name[j] = "."}

LastDot(name) == CHOOSE j \in DotPositions(name) : \A k \in DotPositions(name) : k <= j

(* std::path::Path::extension: None for "..", for a name without a dot and *)
(* for a name whose only dot is its first character; otherwise the part    *)
(* after the final dot.                                                    *)
PathExtension(name) ==
    IF name = <<".", ".">> \/ DotPositions(name) = {} \/ LastDot(name) = 1
    THEN NoneSeq
    ELSE SomeSeq(SubSeq(name, LastDot(name) + 1, Len(name)))

UnwrapOrDefault(opt) == IF opt.some THEN opt.v ELSE <<>>

extension(path) == ToAsciiLowercase(UnwrapOrDefault(PathExtension(path)))

-----------------------------------------------------------------------------
(* main: the compatibility gate.                                           *)

is_file == file.kind = "file"

is_collada_file == extension(args.filepath) = Dae

DeclinesBoth(isf, isc) == ~isf /\ ~isc

Declines(isf, isc) == ~isf \/ ~isc

-----------------------------------------------------------------------------
(* main: the recording stream's identity.                                  *)

DefaultApplicationId == "external_data_loader"

UnwrapOr(opt, d) == IF opt.some THEN opt.v ELSE d

OptionOr(a, b) == IF a.some THEN a ELSE b

StreamNameBareFirst(a) ==
    UnwrapOr(a.application_id, UnwrapOr(a.opened_application_id, DefaultApplicationId))

StreamName(a) ==
    UnwrapOr(a.opened_application_id, UnwrapOr(a.application_id, DefaultApplicationId))

NonEmptyOr(a, b) == IF a.some /\ a.v # "" THEN a ELSE IF b.some /\ b.v # "" THEN b ELSE None

StreamRecordingIdSkipEmpty(a) == NonEmptyOr(a.opened_recording_id, a.recording_id)

StreamRecordingId(a) == OptionOr(a.opened_recording_id, a.recording_id)

-----------------------------------------------------------------------------
(* load_mesh: the mapping of one (mesh, material) pair to a Mesh3D.        *)

ZipReversed(a, b) ==
    [j \in 1..Min(Len(a), Len(b)) |-> <<a[j], b[Min(Len(a), Len(b)) + 1 - j]>>]

Zip(a, b) == [j \in 1..Min(Len(a), Len(b)) |-> <<a[j], b[j]>>]

HasNormalsOuterOnly(mesh) == mesh.normals # <<>>

HasNormals(mesh) == mesh.normals # <<>> /\ mesh.normals[1] # <<>>

(* `x as u8` for an f32: saturating, fraction dropped, NaN to 0.           *)
AsU8Wrapping(x) == IF x.nan THEN 0 ELSE (x.h \div 2) % (U8_MAX + 1)

AsU8(x) ==
    IF x.nan THEN 0
    ELSE IF x.h < 0 THEN 0
    ELSE IF x.h > 2 * U8_MAX THEN U8_MAX
    ELSE x.h \div 2

from_unmultiplied_rgba(r, g, b, a) == <<r, g, b, a>>

EntityPathFromStr(s) == [from |-> "str", str |-> s, file |-> <<>>]

EntityPathFromFilePath(p) == [from |-> "file_path", str |-> "", file |-> p]

TargetIgnoringPrefix(a) == EntityPathFromFilePath(a.filepath)

Target(a) ==
    IF a.entity_path_prefix.some
    THEN EntityPathFromStr(a.entity_path_prefix.v)
    ELSE EntityPathFromFilePath(a.filepath)

Mesh3D(mesh, mat) ==
    [ vertex_positions |-> mesh.vertices,
      vertex_normals   |-> IF HasNormals(mesh)
                           THEN SomeSeq(mesh.normals)
                           ELSE NoneSeq,
      albedo_factor    |-> IF mat.color.diffuse.some
                           THEN SomeSeq(from_unmultiplied_rgba(
                                          AsU8(mat.color.diffuse.v[1]),
                                          AsU8(mat.color.diffuse.v[2]),
                                          AsU8(mat.color.diffuse.v[3]),
                                          AsU8(mat.color.diffuse.v[4])))
                           ELSE NoneSeq ]

Pairs == Zip(scene.meshes, scene.materials)

-----------------------------------------------------------------------------
(* The inputs of a run: the parsed command line and the file it names.     *)

Alphabet == {"d", "a", "e", "D", "A", "E", "."}

Names == SeqUpTo(Alphabet, MaxNameLen)

ModelDae == <<"d", ".", "d", "a", "e">>

FileKinds == {"missing", "dir", "file"}

OptionalIds == {None, Some(""), Some("A"), Some("B")}

OptionalPrefixes == {None, Some(""), Some("/foo")}

Points == {<<0, 0, 0>>, <<1, 2, 3>>}

(* An entry of mesh.normals; the empty entry is the case the guard of      *)
(* load_mesh tests for.                                                    *)
NormalEntries == {<<>>, <<0, 0, 1>>, <<1, 0, 0>>}

AllMeshes ==
    [vertices : SeqUpTo(Points, MaxVertices), normals : SeqUpTo(NormalEntries, MaxNormals)]

ComponentValues ==
    {F32(-3), F32(0), F32(1), F32(24), F32(25), F32(510), F32(511), F32(512), F32(600), NaN}

Material(d) == [color |-> [diffuse |-> d]]

AllMaterials ==
    {Material(NoneSeq)} \cup
    {Material(SomeSeq(<<r, g, b, a>>)) : r, g, b, a \in ComponentValues}

Red == Material(SomeSeq(<<F32(510), F32(0), F32(0), F32(510)>>))

Sample == Material(SomeSeq(<<F32(24), F32(68), F32(112), F32(156)>>))

SmallMaterials == {Material(NoneSeq), Red, Sample}

Quad == [vertices |-> <<<<0, 0, 0>>, <<1, 2, 3>>>>, normals |-> <<>>]

Lit == [vertices |-> <<<<1, 2, 3>>>>, normals |-> <<<<0, 0, 1>>>>]

Hollow == [vertices |-> <<>>, normals |-> <<<<>>>>]

SmallMeshes == {Quad, Lit, Hollow}

EmptyScene == [meshes |-> <<>>, materials |-> <<>>]

ParseError == [ok |-> FALSE, scene |-> EmptyScene]

Parsed(ms, ks) == [ok |-> TRUE, scene |-> [meshes |-> ms, materials |-> ks]]

PlainArgs(p, prefix) ==
    [ filepath |-> p,
      application_id |-> None, opened_application_id |-> None,
      recording_id |-> None, opened_recording_id |-> None,
      entity_path_prefix |-> prefix ]

(* Every path over the alphabet, every kind of file.                       *)
GateInputs ==
    /\ \E p \in Names : args = PlainArgs(p, None)
    /\ \E k \in FileKinds : file = [kind |-> k, content |-> Parsed(<<Quad>>, <<Red>>)]

(* Every combination of the identity options.                              *)
IdentityInputs ==
    /\ args \in [ filepath : {ModelDae},
                  application_id : OptionalIds, opened_application_id : OptionalIds,
                  recording_id : OptionalIds, opened_recording_id : OptionalIds,
                  entity_path_prefix : OptionalPrefixes ]
    /\ file = [kind |-> "file", content |-> Parsed(<<Quad, Lit>>, <<Red, Sample>>)]

(* Every scene of up to MaxMeshes meshes and MaxMaterials materials.       *)
SceneInputs ==
    /\ \E prefix \in {None, Some("/foo")} : args = PlainArgs(ModelDae, prefix)
    /\ \E c \in {ParseError} \cup
                {Parsed(ms, ks) : ms \in SeqUpTo(SmallMeshes, MaxMeshes),
                                  ks \in SeqUpTo(SmallMaterials, MaxMaterials)} :
          file = [kind |-> "file", content |-> c]

(* Every mesh, and every material, in a scene of one pair.                 *)
MeshInputs ==
    /\ args = PlainArgs(ModelDae, None)
    /\ \E m \in AllMeshes : file = [kind |-> "file", content |-> Parsed(<<m>>, <<Sample>>)]

MaterialInputs ==
    /\ args = PlainArgs(ModelDae, None)
    /\ \E k \in AllMaterials : file = [kind |-> "file", content |-> Parsed(<<Quad>>, <<k>>)]

-----------------------------------------------------------------------------
(* The run.                                                                *)

NoStream == [built |-> FALSE, opened |-> FALSE, application_id |-> "", recording_id |-> None]

Init ==
    /\ \/ GateInputs
       \/ IdentityInputs
       \/ SceneInputs
       \/ MeshInputs
       \/ MaterialInputs
    /\ pc = "main"
    /\ rec = NoStream
    /\ scene = EmptyScene
    /\ idx = 1
    /\ written = <<>>
    /\ exitCode = <<>>
    /\ loadCalls = 0
    /\ logCalls = 0

Exit(code) ==
    /\ exitCode' = <<code>>
    /\ pc' = "done"

(* main, lines 94-101: std::process::exit on an unsupported file.          *)
CompatibilityGate ==
    /\ pc = "main"
    /\ IF Declines(is_file, is_collada_file)
       THEN Exit(EXTERNAL_DATA_LOADER_INCOMPATIBLE_EXIT_CODE)
       ELSE pc' = "open" /\ UNCHANGED exitCode
    /\ UNCHANGED <<args, file, rec, scene, idx, written, loadCalls, logCalls>>

(* main, lines 103-123: RecordingStreamBuilder::new, recording_id, stdout. *)
OpenStream ==
    /\ pc = "open"
    /\ \E ok \in BOOLEAN :
          /\ rec' = [ built |-> TRUE, opened |-> ok,
                      application_id |-> StreamName(args),
                      recording_id |-> StreamRecordingId(args) ]
          /\ IF ok
             THEN pc' = "load" /\ UNCHANGED exitCode
             ELSE Exit(EXIT_FAILURE)
    /\ UNCHANGED <<args, file, scene, idx, written, loadCalls, logCalls>>

(* load_mesh, lines 62-63: loader.load_collada(&args.filepath)?            *)
LoadCollada ==
    /\ pc = "load"
    /\ loadCalls' = loadCalls + 1
    /\ IF file.content.ok
       THEN /\ scene' = file.content.scene
            /\ pc' = "loop"
            /\ UNCHANGED exitCode
       ELSE /\ Exit(EXIT_FAILURE)
            /\ UNCHANGED scene
    /\ UNCHANGED <<args, file, rec, idx, written, logCalls>>

LogMeshIgnoringErrors ==
    /\ pc = "loop"
    /\ idx <= Len(Pairs)
    /\ logCalls' = logCalls + 1
    /\ \E ok \in BOOLEAN :
          written' = IF ok
                     THEN Append(written, [ entity_path |-> Target(args),
                                            mesh3d |-> Mesh3D(Pairs[idx][1], Pairs[idx][2]) ])
                     ELSE written
    /\ idx' = idx + 1
    /\ UNCHANGED <<args, file, pc, rec, scene, exitCode, loadCalls>>

LogMeshWritingOnError ==
    /\ pc = "loop"
    /\ idx <= Len(Pairs)
    /\ logCalls' = logCalls + 1
    /\ written' = Append(written, [ entity_path |-> Target(args),
                                    mesh3d |-> Mesh3D(Pairs[idx][1], Pairs[idx][2]) ])
    /\ \E ok \in BOOLEAN :
          IF ok
          THEN idx' = idx + 1 /\ UNCHANGED <<pc, exitCode>>
          ELSE Exit(EXIT_FAILURE) /\ UNCHANGED idx
    /\ UNCHANGED <<args, file, rec, scene, loadCalls>>

(* load_mesh, lines 65-86: one iteration of the loop, rec.log(..)?         *)
LogMesh ==
    /\ pc = "loop"
    /\ idx <= Len(Pairs)
    /\ logCalls' = logCalls + 1
    /\ \E ok \in BOOLEAN :
          IF ok
          THEN /\ written' = Append(written, [ entity_path |-> Target(args),
                                               mesh3d |-> Mesh3D(Pairs[idx][1], Pairs[idx][2]) ])
               /\ idx' = idx + 1
               /\ UNCHANGED <<pc, exitCode>>
          ELSE /\ Exit(EXIT_FAILURE)
               /\ UNCHANGED <<written, idx>>
    /\ UNCHANGED <<args, file, rec, scene, loadCalls>>

(* load_mesh line 88 and main line 127: Ok(()) once the iterator is spent. *)
ReturnOk ==
    /\ pc = "loop"
    /\ idx > Len(Pairs)
    /\ Exit(EXIT_SUCCESS)
    /\ UNCHANGED <<args, file, rec, scene, idx, written, loadCalls, logCalls>>

Next ==
    \/ CompatibilityGate
    \/ OpenStream
    \/ LoadCollada
    \/ LogMesh
    \/ ReturnOk

Spec == Init /\ [][Next]_vars

-----------------------------------------------------------------------------
(* Vocabulary of the properties, stated without the operators of the model.*)

(* The path's extension is "dae" in some mix of cases: a non-empty stem, a *)
(* dot, then d, a, e.                                                      *)
HasDaeExtension(p) ==
    /\ Len(p) >= 5
    /\ p[Len(p) - 3] = "."
    /\ p[Len(p) - 2] \in {"d", "D"}
    /\ p[Len(p) - 1] \in {"a", "A"}
    /\ p[Len(p)] \in {"e", "E"}

Compatible == file.kind = "file" /\ HasDaeExtension(args.filepath)

Exited == pc = "done"

Declined == exitCode = <<EXTERNAL_DATA_LOADER_INCOMPATIBLE_EXIT_CODE>>

Succeeded == exitCode = <<EXIT_SUCCESS>>

PairCount == Min(Len(scene.meshes), Len(scene.materials))

Written == 1..Len(written)

(* C1: the gate lets the run continue iff the path is a regular file whose *)
(* extension equals "dae" case-insensitively; otherwise it declines.       *)
C1_GateIffRegularDaeFile ==
    pc # "main" =>
        /\ Declined <=> ~Compatible
        /\ ~Declined => Compatible /\ (pc = "open" \/ rec.built)

C1_Witness ==
    /\ pc = "open"
    /\ args.filepath = <<"d", ".", "D", "a", "E">>
    /\ file.kind = "file"

(* C2: a run on an incompatible input ends in the step after the gate with *)
(* the incompatibility exit code; the stream was never built or opened,    *)
(* the loader never called, nothing logged.                                *)
C2_DeclineBeforeAnyWork ==
    ~Compatible =>
        /\ pc \in {"main", "done"}
        /\ Exited => Declined
        /\ ~rec.built /\ ~rec.opened
        /\ loadCalls = 0 /\ logCalls = 0 /\ written = <<>>

C2_Witness ==
    /\ Exited /\ Declined
    /\ file.kind = "file"
    /\ args.filepath = <<"d", ".", "e", "a", "d">>

(* C3: stream name = opened_application_id, else application_id, else the  *)
(* default label; recording id = opened_recording_id, else recording_id,   *)
(* else absent; each from its own pair of options only.                    *)
C3_IdentityPrecedence ==
    rec.built =>
        /\ rec.application_id =
              IF args.opened_application_id.some THEN args.opened_application_id.v
              ELSE IF args.application_id.some THEN args.application_id.v
              ELSE "external_data_loader"
        /\ rec.recording_id =
              IF args.opened_recording_id.some THEN args.opened_recording_id
              ELSE IF args.recording_id.some THEN args.recording_id
              ELSE None

C3_Witness ==
    /\ rec.opened
    /\ args.application_id = Some("A") /\ args.opened_application_id = Some("B")
    /\ args.recording_id = Some("A") /\ args.opened_recording_id = None
    /\ rec.application_id = "B" /\ rec.recording_id = Some("A")

(* C4: a successful run writes exactly min(m, k) records with one log call *)
(* each; the i-th record comes from the i-th mesh and the i-th material,   *)
(* and its geometry is the mesh's vertex sequence.                         *)
C4_OneRecordPerPairInOrder ==
    /\ (Exited /\ Succeeded) => Len(written) = PairCount /\ logCalls = PairCount
    /\ Len(written) <= PairCount
    /\ \A j \in Written :
          /\ written[j].mesh3d.vertex_positions = scene.meshes[j].vertices
          /\ Len(written[j].mesh3d.vertex_positions) = Len(scene.meshes[j].vertices)
          /\ written[j].mesh3d.albedo_factor.some = scene.materials[j].color.diffuse.some
          /\ scene.materials[j] = Red =>
                written[j].mesh3d.albedo_factor.v = <<255, 0, 0, 255>>
          /\ scene.materials[j] = Sample =>
                written[j].mesh3d.albedo_factor.v = <<12, 34, 56, 78>>

C4_Witness ==
    /\ Exited /\ Succeeded
    /\ Len(scene.meshes) = 2 /\ Len(scene.materials) = 2
    /\ scene.materials[1] # scene.materials[2]
    /\ Len(written) = 2
    /\ written[2].mesh3d.vertex_positions = <<>>

(* C5: a record carries normals iff the mesh's normals are non-empty and   *)
(* their first entry is non-empty, and then it carries all of them.        *)
C5_NormalsIffFirstEntryNonEmpty ==
    \A j \in Written :
        LET given == scene.meshes[j].normals
            got   == written[j].mesh3d.vertex_normals
        IN  /\ got.some <=> (Len(given) > 0 /\ Len(given[1]) > 0)
            /\ got.some => got.v = given
            /\ ~got.some => got.v = <<>>

C5_Witness ==
    /\ Len(written) = 1
    /\ scene.meshes[1].normals = <<<<>>, <<0, 0, 1>>>>
    /\ ~written[1].mesh3d.vertex_normals.some

(* C6 as stated: the color is present iff diffuse is; a component within   *)
(* 0..255 is kept unchanged, one below 0 gives 0, one above 255 gives 255. *)
C6_InRangeKeptUnchanged ==
    \A j \in Written :
        LET d == scene.materials[j].color.diffuse
            c == written[j].mesh3d.albedo_factor
        IN  /\ c.some <=> d.some
            /\ d.some =>
                  \A n \in 1..4 :
                     ~d.v[n].nan =>
                        /\ (0 <= d.v[n].h /\ d.v[n].h <= 2 * 255) => 2 * c.v[n] = d.v[n].h
                        /\ d.v[n].h < 0 => c.v[n] = 0
                        /\ d.v[n].h > 2 * 255 => c.v[n] = 255

(* C6 amended: the color is present iff diffuse is; each channel is the    *)
(* component cut to its integer part and saturated to 0..255 (NaN gives 0),*)
(* so only an integral component within 0..255 is kept unchanged.          *)
C6_TruncatedAndSaturated ==
    \A j \in Written :
        LET d == scene.materials[j].color.diffuse
            c == written[j].mesh3d.albedo_factor
        IN  /\ c.some <=> d.some
            /\ ~c.some => c.v = <<>>
            /\ d.some =>
                  /\ Len(c.v) = 4
                  /\ \A n \in 1..4 :
                        /\ c.v[n] \in 0..255
                        /\ d.v[n].nan => c.v[n] = 0
                        /\ ~d.v[n].nan =>
                              /\ (0 <= d.v[n].h /\ d.v[n].h <= 2 * 255) =>
                                    (2 * c.v[n] <= d.v[n].h /\ d.v[n].h <= 2 * c.v[n] + 1)
                              /\ d.v[n].h < 0 => c.v[n] = 0
                              /\ d.v[n].h > 2 * 255 => c.v[n] = 255

C6_Witness ==
    /\ Len(written) = 1
    /\ scene.materials[1].color.diffuse.v = <<F32(25), F32(600), F32(-3), NaN>>
    /\ written[1].mesh3d.albedo_factor.v = <<12, 255, 0, 0>>

(* C7: every record of a run targets the same entity path: the prefix as   *)
(* given when there is one, the path made from the file path otherwise.    *)
C7_OneEntityPathPerRun ==
    /\ \A j \in Written :
          IF args.entity_path_prefix.some
          THEN /\ written[j].entity_path.from = "str"
               /\ written[j].entity_path.str = args.entity_path_prefix.v
          ELSE /\ written[j].entity_path.from = "file_path"
               /\ written[j].entity_path.file = args.filepath
    /\ \A j, k \in Written : written[j].entity_path = written[k].entity_path

C7_Witness ==
    /\ Len(written) = 2
    /\ args.entity_path_prefix = Some("/foo")
    /\ written[1].entity_path.str = "/foo" /\ written[2].entity_path.str = "/foo"

(* C8: on a compatible input the exit code is 0 iff the stream opened, the *)
(* extraction succeeded and every write succeeded; otherwise the run ends  *)
(* at the first failure with a code that is neither 0 nor the              *)
(* incompatibility code, and nothing is attempted after the failure.       *)
C8_ExitCodeTellsFailure ==
    Compatible =>
        /\ Exited =>
              /\ Succeeded <=> /\ rec.opened
                               /\ loadCalls = 1 /\ file.content.ok
                               /\ logCalls = PairCount /\ Len(written) = PairCount
              /\ ~Succeeded => /\ Len(exitCode) = 1
                               /\ exitCode[1] # 0
                               /\ exitCode[1] # 66
        /\ ~rec.opened => loadCalls = 0 /\ logCalls = 0
        /\ (loadCalls = 1 /\ ~file.content.ok) => Exited /\ logCalls = 0 /\ written = <<>>
        /\ loadCalls <= 1
        /\ logCalls # Len(written) => Exited /\ ~Succeeded /\ logCalls = Len(written) + 1

C8_Witness ==
    /\ Exited /\ exitCode = <<1>>
    /\ rec.opened /\ file.content.ok
    /\ Len(written) = 1 /\ logCalls = 2

(* C9 as stated: a finished run either succeeded with a record for every   *)
(* pair, or failed with no record at all on the stream.                    *)
C9_NeverPartial ==
    Exited =>
        \/ Succeeded /\ Len(written) = PairCount
        \/ ~Succeeded /\ written = <<>>

(* C9 amended: a finished run either succeeded with a record for every     *)
(* pair, or failed at its first failing step with the records written      *)
(* before that step still on the stream: none when the gate declined, the  *)
(* stream did not open or the extraction failed, and the records of the    *)
(* meshes before the failing one when a write failed.                      *)
C9_FailureKeepsWrittenPrefix ==
    Exited =>
        \/ Succeeded /\ Len(written) = PairCount
        \/ /\ ~Succeeded
           /\ (Declined \/ ~rec.opened \/ ~file.content.ok) => written = <<>>
           /\ (rec.opened /\ file.content.ok) =>
                 /\ Len(written) = logCalls - 1
                 /\ Len(written) < PairCount
           /\ \A j \in Written :
                 written[j].mesh3d.vertex_positions = scene.meshes[j].vertices

C9_Witness ==
    /\ Exited /\ ~Succeeded
    /\ PairCount = 2 /\ logCalls = 2
    /\ Len(written) = 1
    /\ written[1].mesh3d.vertex_positions = scene.meshes[1].vertices

(* C10 as stated: the first non-empty option wins, an option given as the  *)
(* empty string is skipped, and neither the stream name nor the recording  *)
(* id is ever the empty string.                                            *)
C10_FirstNonEmptyWins ==
    rec.built =>
        /\ rec.application_id =
              IF args.opened_application_id.some /\ args.opened_application_id.v # ""
              THEN args.opened_application_id.v
              ELSE IF args.application_id.some /\ args.application_id.v # ""
              THEN args.application_id.v
              ELSE "external_data_loader"
        /\ rec.recording_id =
              IF args.opened_recording_id.some /\ args.opened_recording_id.v # ""
              THEN args.opened_recording_id
              ELSE IF args.recording_id.some /\ args.recording_id.v # ""
              THEN args.recording_id
              ELSE None
        /\ rec.application_id # ""
        /\ rec.recording_id # Some("")

(* C10 amended: the first option that is given wins even when it is the    *)
(* empty string: an empty opened_* option hides the bare one, and the      *)
(* stream name or recording id is empty exactly when the winning option is.*)
C10_FirstPresentWinsEvenIfEmpty ==
    rec.built =>
        /\ args.opened_application_id = Some("") => rec.application_id = ""
        /\ args.opened_recording_id = Some("") => rec.recording_id = Some("")
        /\ rec.application_id = "" <=>
              \/ args.opened_application_id = Some("")
              \/ args.opened_application_id = None /\ args.application_id = Some("")
        /\ rec.recording_id = Some("") <=>
              \/ args.opened_recording_id = Some("")
              \/ args.opened_recording_id = None /\ args.recording_id = Some("")
        /\ rec.recording_id = None <=>
              (args.opened_recording_id = None /\ args.recording_id = None)

C10_Witness ==
    /\ rec.opened
    /\ args.opened_application_id = Some("") /\ args.application_id = Some("A")
    /\ args.opened_recording_id = Some("") /\ args.recording_id = Some("A")
    /\ rec.application_id = "" /\ rec.recording_id = Some("")

====
